---- MODULE Spec2Model ----
(***************************************************************************)
(* A model of src/async_impl/pay.rs (wechat-pay-rust-sdk): the asynchronous *)
(* dispatcher WechatPay::pay / get_pay, the transaction-creation calls      *)
(* built on them, the deep-link scrape get_weixin and the media uploader    *)
(* upload_image.                                                            *)
(*                                                                          *)
(* Strings the code inspects character by character (file names, HTML       *)
(* bodies) are sequences of one-character strings.  Serialized JSON         *)
(* documents are sequences of <<key, value>> members.  One request is in    *)
(* flight at a time; `events` records, for the request in flight, every     *)
(* call of build_header, every HTTP request handed to the transport, every  *)
(* response received and every call of the client-signature packager.       *)
(***************************************************************************)
EXTENDS Integers, Sequences, FiniteSets, TLC

\* How many API calls one behaviour makes.
MaxCalls == 2
\* How many members a caller-supplied JSON object has at most.
MaxMembers == 2
\* How many pieces an HTML body is assembled from.
MaxPieces == 3

VARIABLES
    pc,       \* "idle", "await_send", "await_body" or "done"
    op,       \* the call in progress: its name and its arguments
    events,   \* what the call in progress did, in order
    resp,     \* the response received for the call in progress
    result,   \* the value the call in progress returned
    cause,    \* why the call in progress failed (a probe, not program state)
    errKinds, \* cause -> the PayError variants returned for it so far
    nonce,    \* the nonces/timestamps minted so far
    calls     \* the calls finished so far

vars == <<pc, op, events, resp, result, cause, errKinds, nonce, calls>>

----------------------------------------------------------------------------
\* Option and Result

None == [tag |-> "None"]
Some(v) == [tag |-> "Some", val |-> v]
Ok(v) == [tag |-> "Ok", val |-> v]
Err(variant, detail) == [tag |-> "Err", variant |-> variant, detail |-> detail]
IsOk(r) == r.tag = "Ok"
IsErr(r) == r.tag = "Err"

----------------------------------------------------------------------------
\* Character strings

RECURSIVE Concat(_)
Concat(ss) == IF ss = <<>> THEN <<>> ELSE Head(ss) \o Concat(Tail(ss))

\* str::contains(needle)
Contains(s, needle) ==
    \E i \in 1..(Len(s) - Len(needle) + 1) :
        SubSeq(s, i, i + Len(needle) - 1) = needle

\* str::split(sep) for a one-character separator: the pieces between the
\* separators, in order; a string without the separator is its only piece.
RECURSIVE Split(_, _)
Split(s, sep) ==
    IF \E i \in 1..Len(s) : s[i] = sep
    THEN LET i == CHOOSE k \in 1..Len(s) :
                      s[k] = sep /\ \A j \in 1..(k - 1) : s[j] # sep
         IN <<SubSeq(s, 1, i - 1)>> \o Split(SubSeq(s, i + 1, Len(s)), sep)
    ELSE <<s>>

\* Iterator::last() of a split: split never yields an empty iterator.
Last(seq) == IF seq = <<>> THEN None ELSE Some(seq[Len(seq)])

UpperCase == <<"J", "P", "E", "G", "N", "B", "M", "I", "F", "T", "X", "A">>
LowerCase == <<"j", "p", "e", "g", "n", "b", "m", "i", "f", "t", "x", "a">>

\* char::to_lowercase on the characters the model uses
LowerChar(c) ==
    IF \E i \in 1..Len(UpperCase) : UpperCase[i] = c
    THEN LowerCase[CHOOSE i \in 1..Len(UpperCase) : UpperCase[i] = c]
    ELSE c

\* str::to_lowercase
to_lowercase(s) == [i \in 1..Len(s) |-> LowerChar(s[i])]

----------------------------------------------------------------------------
\* The configuration and credential store read by the dispatcher

appid == "wx_app_cfg"
mch_id == "mch_cfg"
notify_url == "https://cfg/notify"
base_url == "https://api.mch.weixin.qq.com"

----------------------------------------------------------------------------
\* JSON

\* The member names the model uses, in the byte order serde_json's Map keeps
\* and serializes them in.
KeyOrder ==
    <<"appid", "description", "filename", "mchid", "notify_url",
      "out_trade_no", "sha256">>

\* A JSON text: an object with its members in textual order, or something
\* that is not an object.
JsonObject(members) == [kind |-> "object", members |-> members]
JsonArray == [kind |-> "array", members |-> <<>>]
JsonMalformed == [kind |-> "malformed", members |-> <<>>]

\* Map::insert: the value of an existing key is replaced.
MapInsert(map, k, v) ==
    [x \in (DOMAIN map) \cup {k} |-> IF x = k THEN v ELSE map[x]]

RECURSIVE MapOfMembers(_)
MapOfMembers(members) ==
    IF members = <<>>
    THEN <<>>
    ELSE LET n == Len(members)
         IN MapInsert(MapOfMembers(SubSeq(members, 1, n - 1)),
                      members[n][1], members[n][2])

\* serde_json::from_str::<Map<String, Value>>: only a JSON object parses.
from_str(json_str) ==
    IF json_str.kind = "object"
    THEN Ok(MapOfMembers(json_str.members))
    ELSE Err("serde_json::Error", json_str.kind)

\* serde_json::to_string of a Map / Value::to_string of an object: the
\* members in key order.
to_string(map) ==
    LET keys == SelectSeq(KeyOrder, LAMBDA k : k \in DOMAIN map)
    IN [i \in 1..Len(keys) |-> <<keys[i], map[keys[i]]>>]

----------------------------------------------------------------------------
\* Collaborators outside src/async_impl/pay.rs

\* impl From<serde_json::Error> for PayError, applied by `?`.
FromSerdeJsonError(e) == Err("Serialization", e.detail)

\* impl From<reqwest::Error> for PayError, applied by `?`: a transport
\* failure and an undecodable body are different kinds of PayError.
FromReqwestError(e) ==
    IF e = "decode" THEN Err("Serialization", e) ELSE Err("Transport", e)

\* WechatPay::build_header: the Signature Engine.  It mints the nonce and
\* timestamp n, signs the canonical message and returns the header, or fails
\* when the key or the signature backend rejects the input.
build_header(method, url, body, n, keyOk) ==
    IF keyOk
    THEN Ok([mchid |-> mch_id, nonce_str |-> n, timestamp |-> n,
             signature |-> <<method, url, n, n, body>>])
    ELSE Err("Signature", "sign")

\* WechatPay::mut_sign_data: the Client Signature Packager.
mut_sign_data(prefix, prepay_id, n) ==
    [package |-> <<"prepay_id=", prepay_id>>, nonce_str |-> n,
     timestamp |-> n, sign_type |-> "RSA",
     pay_sign |-> <<prefix, n, n, prepay_id>>]

\* Response::json::<R>(): the typed result of a body, or a decode error for
\* a body that is not JSON or not of R's shape.
NoBody == [kind |-> "none", prepay_id |-> None]
Deserialize(body) ==
    IF body.kind = "json"
    THEN Ok([prepay_id |-> body.prepay_id, sign_data |-> None])
    ELSE Err("reqwest::Error", "decode")

----------------------------------------------------------------------------
\* Media uploader: the pure steps of upload_image

MAX_SIZE == 2 * 1024 * 1024
URL == "/v3/merchant/media/upload"

jpg == <<"j", "p", "g">>
jpeg == <<"j", "p", "e", "g">>
png == <<"p", "n", "g">>
bmp == <<"b", "m", "p">>

SUPPORTED_EXTENSIONS == {jpg, jpeg, png, bmp}

is_supported_image(extension) ==
    to_lowercase(extension) \in SUPPORTED_EXTENSIONS

\* Variant: the ceiling itself is refused (`>=` for `>`).
SizeExceededInclusive(len) == len >= MAX_SIZE

\* `image.len() > MAX_SIZE` rejects the image.
SizeExceeded(len) == len > MAX_SIZE

\* filename.split('.').last().ok_or_else(..)
Extension(filename) ==
    LET last == Last(Split(filename, "."))
    IN IF last = None
       THEN Err("WechatError", "Invalid filename, no extension found")
       ELSE Ok(last.val)

\* The preconditions of upload_image: the extension to upload under, or the
\* validation error returned.
UploadPrecondition(image, filename) ==
    IF SizeExceeded(image.len)
    THEN Err("WechatError", "Image size exceeds the maximum allowed size")
    ELSE LET ext == Extension(filename)
         IN IF IsErr(ext)
            THEN ext
            ELSE IF ~is_supported_image(ext.val)
                 THEN Err("WechatError", "Unsupported image format")
                 ELSE ext

\* hex::encode(Sha256::digest(image)): a digest stands for the bytes hashed.
Sha256Hex(image) == <<"sha256", image.bytes, image.len>>

\* json!({"filename": filename, "sha256": hash})
UploadMeta(filename, hash) ==
    MapInsert(MapInsert(<<>>, "filename", filename), "sha256", hash)

\* The body handed to build_header: meta.to_string()
UploadSignBody(meta) == to_string(meta)

\* Variant: the part is serialized from a document rebuilt with the file
\* name in lower case.
UploadMetaPartLowercased(meta) ==
    [content_type |-> "application/json",
     body |-> to_string(MapInsert(meta, "filename",
                                  to_lowercase(meta["filename"])))]

\* The text of the part named "meta": Part::text(meta.to_string())
UploadMetaPart(meta) ==
    [content_type |-> "application/json", body |-> to_string(meta)]

\* `match ext { .. }`: the MIME type of the part named "file".
UploadMime(ext) ==
    CASE ext = jpg \/ ext = jpeg -> "image/jpeg"
      [] ext = png -> "image/png"
      [] ext = bmp -> "image/bmp"
      [] OTHER -> "image/jpeg"

\* Form::new().part("meta", json_part).part("file", form_part)
UploadForm(image, filename, ext, meta) ==
    [meta |-> UploadMetaPart(meta),
     file |-> [mime |-> UploadMime(ext), file_name |-> filename,
               len |-> image.len, bytes |-> image.bytes]]

----------------------------------------------------------------------------
\* Deep-link scrape: the pure step of get_weixin

Needle == <<"w", "e", "i", "x", "i", "n", ":", "/", "/">>
HasNeedle(s) == Contains(s, Needle)

\* Iterator::find(|line| line.contains("weixin://")): the first element
\* holding the scheme, if any.
Find(seq) ==
    IF \E i \in 1..Len(seq) : HasNeedle(seq[i])
    THEN Some(seq[CHOOSE i \in 1..Len(seq) :
                      HasNeedle(seq[i]) /\ \A j \in 1..(i - 1) : ~HasNeedle(seq[j])])
    ELSE None

\* Variant: the first segment of the line is taken without looking for the
\* scheme in it.
ScrapeFirstSegment(text) ==
    LET line == Find(Split(text, "\n"))
    IN IF line = None
       THEN Err("WeixinNotFound", "")
       ELSE Ok(Some(Split(line.val, "\"")[1]))

\* text.split("\n").find(..).map(|line| line.split('"').find(..)).ok_or_else(..)
Scrape(text) ==
    LET line == Find(Split(text, "\n"))
    IN IF line = None
       THEN Err("WeixinNotFound", "")
       ELSE Ok(Find(Split(line.val, "\"")))

----------------------------------------------------------------------------
\* Inputs

CallerKeys == {"appid", "notify_url", "description", "out_trade_no"}
CallerValues == {"caller_a", "caller_b"}

\* ParamsTrait::to_json serializes a struct: the member names are distinct.
MemberSeqs ==
    {m \in UNION {[1..n -> CallerKeys \X CallerValues] : n \in 0..MaxMembers} :
        \A i, j \in 1..Len(m) : m[i][1] = m[j][1] => i = j}

JsonTexts == {JsonObject(m) : m \in MemberSeqs} \cup {JsonArray, JsonMalformed}

Stems == {<<>>, <<"a">>, <<"a", ".", "b">>}
Dots == {<<>>, <<".">>}
Extensions ==
    {<<>>, jpg, <<"J", "P", "G">>, jpeg, <<"J", "p", "E", "g">>, png,
     <<"P", "N", "G">>, bmp, <<"B", "m", "p">>, <<"g", "i", "f">>,
     <<"t", "x", "t">>}
Filenames ==
    {Concat(<<stem, dot, ext>>) : stem \in Stems, dot \in Dots, ext \in Extensions}

Images ==
    [len : {0, MAX_SIZE - 1, MAX_SIZE, MAX_SIZE + 1}, bytes : {"img_a", "img_b"}]

Pieces == {<<>>, <<"a">>, Needle, Needle \o <<"p">>}
Delims == {<<>>, <<" ">>, <<"\n">>, <<"\"">>}
RECURSIVE TextsOf(_)
TextsOf(n) ==
    IF n = 1
    THEN Pieces
    ELSE {t \o d \o p : t \in TextsOf(n - 1), d \in Delims, p \in Pieces}
Texts == TextsOf(MaxPieces)

\* What the gateway may answer a signed request with.
JsonBodies ==
    {[kind |-> k, prepay_id |-> None] : k \in {"not_json", "mismatch", "json"}}
    \cup {[kind |-> "json", prepay_id |-> Some(id)] : id \in {"wx1234", "wx5678"}}
HtmlBodies == {[kind |-> "html", text |-> t] : t \in Texts}

TransportErrors == {"connect", "timeout"}
Referers == {"valid", "invalid"}

----------------------------------------------------------------------------
\* The state machine

Pending == [tag |-> "Pending"]
Panicked == [tag |-> "Panic"]
NoCall == [name |-> "none", via |-> "none"]

Init ==
    /\ pc = "idle"
    /\ op = NoCall
    /\ events = <<>>
    /\ resp = NoBody
    /\ result = Pending
    /\ cause = "none"
    /\ errKinds = [c \in {"transport", "decode"} |-> {}]
    /\ nonce = 0
    /\ calls = 0

\* The call returns r; c is why it failed.
Finish(c, r) ==
    /\ pc' = "done"
    /\ result' = r
    /\ cause' = c
    /\ errKinds' = IF IsErr(r) /\ c \in DOMAIN errKinds
                   THEN [errKinds EXCEPT ![c] = @ \cup {r.variant}]
                   ELSE errKinds

\* Variant: a failed build_header is not propagated; the request goes out
\* with empty headers.
AfterHeaderUnchecked(headers, signed, request) ==
    [events |-> <<signed, [ev |-> "send",
                           headers |-> IF IsErr(headers)
                                       THEN [mchid |-> "", nonce_str |-> 0,
                                             timestamp |-> 0, signature |-> <<>>]
                                       ELSE headers.val,
                           request |-> request]>>,
     sent |-> TRUE, result |-> Pending]

\* `self.build_header(..)?` followed by the request built and sent with the
\* headers it returned: what the call has done once the header is decided.
AfterHeader(headers, signed, request) ==
    IF IsErr(headers)
    THEN [events |-> <<signed>>, sent |-> FALSE, result |-> headers]
    ELSE [events |-> <<signed, [ev |-> "send", headers |-> headers.val,
                                request |-> request]>>,
          sent |-> TRUE, result |-> Pending]

SignAndSend(method, url, body, request, keyOk) ==
    LET headers == build_header(method, url, body, nonce + 1, keyOk)
        signed == [ev |-> "build_header", method |-> method, url |-> url,
                   body |-> body, ok |-> IsOk(headers)]
        next == AfterHeader(headers, signed, request)
    IN /\ nonce' = nonce + 1
       /\ events' = next.events
       /\ resp' = resp
       /\ IF next.sent
          THEN pc' = "await_send" /\ UNCHANGED <<result, cause, errKinds>>
          ELSE Finish("sign", next.result)

\* Map::entry(k).or_insert(v): the value of an existing key is kept.
MapOrInsert(map, k, v) == IF k \in DOMAIN map THEN map ELSE MapInsert(map, k, v)

\* Variant: the configured values only fill in what the caller left out.
PayBodyKeepCaller(json_str) ==
    LET parsed == from_str(json_str)
    IN IF IsErr(parsed)
       THEN FromSerdeJsonError(parsed)
       ELSE Ok(to_string(MapOrInsert(MapOrInsert(MapOrInsert(parsed.val,
                   "appid", appid), "mchid", mch_id), "notify_url", notify_url)))

\* pay, lines 40-46: the caller's JSON with the configured appid, mchid and
\* notify_url inserted, serialized again.
PayBody(json_str) ==
    LET parsed == from_str(json_str)
    IN IF IsErr(parsed)
       THEN FromSerdeJsonError(parsed)
       ELSE Ok(to_string(MapInsert(MapInsert(MapInsert(parsed.val,
                   "appid", appid), "mchid", mch_id), "notify_url", notify_url)))

pay(name, method, url, json, keyOk) ==
    /\ pc = "idle"
    /\ calls < MaxCalls
    /\ op' = [name |-> name, via |-> "pay", json |-> json]
    /\ LET body == PayBody(json)
       IN IF IsErr(body)
          THEN /\ events' = <<>>
               /\ Finish("serialize", body)
               /\ UNCHANGED <<nonce, resp>>
          ELSE SignAndSend(method, url, body.val,
                           [method |-> method, url |-> <<base_url, url>>,
                            body |-> body.val, multipart |-> None], keyOk)

get_pay(name, url, keyOk) ==
    /\ pc = "idle"
    /\ calls < MaxCalls
    /\ op' = [name |-> name, via |-> "get_pay"]
    /\ SignAndSend("GET", url, <<>>,
                   [method |-> "GET", url |-> <<base_url, url>>,
                    body |-> <<>>, multipart |-> None], keyOk)

h5_pay(params, keyOk) ==
    pay("h5_pay", "POST", "/v3/pay/transactions/h5", params, keyOk)
app_pay(params, keyOk) ==
    pay("app_pay", "POST", "/v3/pay/transactions/app", params, keyOk)
jsapi_pay(params, keyOk) ==
    pay("jsapi_pay", "POST", "/v3/pay/transactions/jsapi", params, keyOk)
micro_pay(params, keyOk) ==
    pay("micro_pay", "POST", "/v3/pay/transactions/jsapi", params, keyOk)
native_pay(params, keyOk) ==
    pay("native_pay", "POST", "/v3/pay/transactions/native", params, keyOk)
certificates(keyOk) ==
    get_pay("certificates", "/v3/certificates", keyOk)

upload_image(image, filename, keyOk) ==
    /\ pc = "idle"
    /\ calls < MaxCalls
    /\ op' = [name |-> "upload_image", via |-> "upload_image",
              image |-> image, filename |-> filename]
    /\ LET ext == UploadPrecondition(image, filename)
           meta == UploadMeta(filename, Sha256Hex(image))
       IN IF IsErr(ext)
          THEN /\ events' = <<>>
               /\ Finish("validation", ext)
               /\ UNCHANGED <<nonce, resp>>
          ELSE SignAndSend("POST", URL, UploadSignBody(meta),
                           [method |-> "POST", url |-> <<base_url, URL>>,
                            body |-> <<>>,
                            multipart |-> Some(UploadForm(image, filename,
                                                          ext.val, meta))],
                           keyOk)

\* get_weixin, lines 136-142: an unsigned GET carrying the referer; parsing
\* the referer into a header value is unwrapped.
get_weixin(h5_url, referer) ==
    /\ pc = "idle"
    /\ calls < MaxCalls
    /\ op' = [name |-> "get_weixin", via |-> "get_weixin"]
    /\ UNCHANGED <<nonce, resp>>
    /\ IF referer = "invalid"
       THEN events' = <<>> /\ Finish("panic", Panicked)
       ELSE /\ events' = <<[ev |-> "send", headers |-> [referer |-> referer],
                           request |-> [method |-> "GET", url |-> <<h5_url>>,
                                        body |-> <<>>, multipart |-> None]]>>
            /\ pc' = "await_send"
            /\ UNCHANGED <<result, cause, errKinds>>

\* `.send().await?` fails in the transport.
SendFail ==
    /\ pc = "await_send"
    /\ \E e \in TransportErrors : Finish("transport", FromReqwestError(e))
    /\ UNCHANGED <<op, events, resp, nonce, calls>>

\* `.send().await?` yields the gateway's response.
SendOk ==
    /\ pc = "await_send"
    /\ \E body \in (IF op.via = "get_weixin" THEN HtmlBodies ELSE JsonBodies) :
           resp' = body
    /\ pc' = "await_body"
    /\ events' = Append(events, [ev |-> "response"])
    /\ UNCHANGED <<op, result, cause, errKinds, nonce, calls>>

\* Variant: a body that does not decode is reported as a failure to read it.
JsonResultUndifferentiated(body, readOk) ==
    IF ~readOk
    THEN FromReqwestError("body")
    ELSE LET typed == Deserialize(body)
         IN IF IsErr(typed) THEN FromReqwestError("body") ELSE typed

\* `.json::<R>().await.map(Ok)?`: the typed result, or the reqwest error of
\* reading or decoding the body converted by `?`.
JsonResult(body, readOk) ==
    IF ~readOk
    THEN FromReqwestError("body")
    ELSE LET typed == Deserialize(body)
         IN IF IsErr(typed) THEN FromReqwestError(typed.detail) ELSE typed

\* Variant: the closure returns the typed result as it came.
SignDataClosureSkipped(typed, n) == [result |-> typed, packaged |-> <<>>]

\* The closure of app_pay, jsapi_pay and micro_pay: the typed result with
\* sign_data packaged from its prepay_id, and the packager calls made.
SignDataClosure(typed, n) ==
    IF typed.prepay_id.tag = "Some"
    THEN [result |-> [typed EXCEPT !.sign_data =
                          Some(mut_sign_data("", typed.prepay_id.val, n))],
          packaged |-> <<[ev |-> "mut_sign_data",
                          prepay_id |-> typed.prepay_id.val, n |-> n]>>]
    ELSE [result |-> typed, packaged |-> <<>>]

\* Result::map(closure)
MapSignData(r, n) ==
    IF IsOk(r)
    THEN LET c == SignDataClosure(r.val, n)
         IN [result |-> Ok(c.result), packaged |-> c.packaged]
    ELSE [result |-> r, packaged |-> <<>>]

PackagingCalls == {"app_pay", "jsapi_pay", "micro_pay"}

\* The body of a signed request arrives (or fails to) and the call returns.
JsonComplete ==
    /\ pc = "await_body"
    /\ op.via # "get_weixin"
    /\ \E readOk \in BOOLEAN :
       LET r == JsonResult(resp, readOk)
           m == IF op.name \in PackagingCalls
                THEN MapSignData(r, nonce + 1)
                ELSE [result |-> r, packaged |-> <<>>]
           why == IF ~readOk THEN "transport"
                  ELSE IF resp.kind # "json" THEN "decode" ELSE "none"
       IN /\ events' = events \o m.packaged
          /\ nonce' = nonce + Len(m.packaged)
          /\ Finish(why, m.result)
    /\ UNCHANGED <<op, resp, calls>>

\* get_weixin, lines 143-153: `.text().await?` and the scrape.
TextComplete ==
    /\ pc = "await_body"
    /\ op.via = "get_weixin"
    /\ \E readOk \in BOOLEAN :
       IF readOk
       THEN LET r == Scrape(resp.text)
            IN Finish(IF IsErr(r) THEN "not_found" ELSE "none", r)
       ELSE Finish("transport", FromReqwestError("body"))
    /\ UNCHANGED <<op, events, resp, nonce, calls>>

\* The caller takes the result; the next call starts from scratch.
Return ==
    /\ pc = "done"
    /\ pc' = "idle"
    /\ op' = NoCall
    /\ events' = <<>>
    /\ resp' = NoBody
    /\ result' = Pending
    /\ cause' = "none"
    /\ calls' = calls + 1
    /\ UNCHANGED <<errKinds, nonce>>

Call ==
    /\ pc = "idle"
    /\ calls < MaxCalls
    /\ calls' = calls
    /\ \/ \E params \in JsonTexts, keyOk \in BOOLEAN : h5_pay(params, keyOk)
       \/ \E params \in JsonTexts, keyOk \in BOOLEAN : app_pay(params, keyOk)
       \/ \E params \in JsonTexts, keyOk \in BOOLEAN : jsapi_pay(params, keyOk)
       \/ \E params \in JsonTexts, keyOk \in BOOLEAN : micro_pay(params, keyOk)
       \/ \E params \in JsonTexts, keyOk \in BOOLEAN : native_pay(params, keyOk)
       \/ \E keyOk \in BOOLEAN : certificates(keyOk)
       \/ \E image \in Images, filename \in Filenames, keyOk \in BOOLEAN :
              upload_image(image, filename, keyOk)
       \/ \E referer \in Referers : get_weixin("h5_url", referer)

Next ==
    \/ Call
    \/ SendFail
    \/ SendOk
    \/ JsonComplete
    \/ TextComplete
    \/ Return

Spec == Init /\ [][Next]_vars

----------------------------------------------------------------------------
\* What the properties speak about

Signs == SelectSeq(events, LAMBDA e : e.ev = "build_header")
Sends == SelectSeq(events, LAMBDA e : e.ev = "send")
Packs == SelectSeq(events, LAMBDA e : e.ev = "mut_sign_data")
Started == pc # "idle"
Returned == pc = "done"
IsValidationError(r) == IsErr(r) /\ r.variant = "WechatError"

\* A file name's extension as the contract words it: what follows the last
\* '.', for a name that has one.
HasDot(f) == \E i \in 1..Len(f) : f[i] = "."
LastDot(f) == CHOOSE i \in 1..Len(f) : f[i] = "." /\ \A j \in (i + 1)..Len(f) : f[j] # "."
ExtOf(f) == SubSeq(f, LastDot(f) + 1, Len(f))
AllowListed(f) == HasDot(f) /\ to_lowercase(ExtOf(f)) \in {jpg, jpeg, png, bmp}
MimeOf(ext) ==
    IF ext \in {jpg, jpeg} THEN "image/jpeg"
    ELSE IF ext = png THEN "image/png" ELSE "image/bmp"

\* The deep link as the contract words it: the stretch free of '"' and line
\* breaks around the first occurrence of the scheme in the body.
OccursAt(t, i) == i + Len(Needle) - 1 <= Len(t) /\ SubSeq(t, i, i + Len(Needle) - 1) = Needle
Occurs(t) == \E i \in 1..Len(t) : OccursAt(t, i)
FirstOcc(t) == CHOOSE i \in 1..Len(t) : OccursAt(t, i) /\ \A j \in 1..(i - 1) : ~OccursAt(t, j)
IsBreak(c) == c = "\n" \/ c = "\""
StretchAround(t, i) ==
    LET before == {a \in 1..(i - 1) : IsBreak(t[a])}
        after == {b \in (i + 1)..Len(t) : IsBreak(t[b])}
        from == IF before = {} THEN 1
                ELSE 1 + CHOOSE a \in before : \A x \in before : x <= a
        to == IF after = {} THEN Len(t)
              ELSE (CHOOSE b \in after : \A x \in after : b <= x) - 1
    IN SubSeq(t, from, to)

\* The value the body string holds for a member name.
HasMember(body, k) == \E i \in 1..Len(body) : body[i][1] = k
MemberOf(body, k) == body[CHOOSE i \in 1..Len(body) : body[i][1] = k][2]
MemberNames(body) == {body[i][1] : i \in 1..Len(body)}

----------------------------------------------------------------------------
\* Properties

\* C1: in upload_image the metadata document handed to build_header as the
\* signing body is the very text transmitted as the multipart part "meta".
UploadSignedMetaIsTransmitted ==
    (op.via = "upload_image" /\ Len(Sends) >= 1) =>
        /\ Len(Signs) = 1
        /\ Sends[1].request.multipart.tag = "Some"
        /\ Sends[1].request.multipart.val.meta.body = Signs[1].body
        /\ MemberOf(Signs[1].body, "filename") = op.filename

UploadSignedMetaIsTransmittedWitness ==
    /\ op.via = "upload_image"
    /\ Len(Sends) = 1
    /\ op.filename # to_lowercase(op.filename)

UploadAcceptsExactlyAllowListed ==
    (op.via = "upload_image" /\ Started /\ op.image.len <= MAX_SIZE) =>
        /\ (Len(Signs) >= 1) <=> AllowListed(op.filename)
        /\ ~AllowListed(op.filename) =>
               Returned /\ IsValidationError(result) /\ events = <<>>

\* C4: pay, get_pay and upload_image sign before they send: a request is
\* sent only after build_header succeeded, and when build_header fails its
\* error is returned, nothing is sent and signing is not tried again.
SignBeforeSend ==
    (op.via \in {"pay", "get_pay", "upload_image"} /\ Started) =>
        /\ Len(Signs) <= 1
        /\ Len(Sends) <= 1
        /\ Len(Sends) = 1 =>
               /\ Len(events) >= 2
               /\ events[1].ev = "build_header"
               /\ events[1].ok
               /\ events[2].ev = "send"
        /\ (Len(Signs) = 1 /\ ~Signs[1].ok) =>
               /\ Returned
               /\ result = Err("Signature", "sign")
               /\ Len(Sends) = 0

SignBeforeSendWitness ==
    /\ op.via \in {"pay", "get_pay", "upload_image"}
    /\ Returned
    /\ Len(Signs) = 1
    /\ ~Signs[1].ok

\* C5: no dispatch operation returns a typed result unless the response's
\* signature was verified after the send and before the return.
VerifiedBeforeTrusted ==
    (op.via \in {"pay", "get_pay"} /\ Returned /\ IsOk(result)) =>
        \E i, j \in 1..Len(events) :
            i < j /\ events[i].ev = "response" /\ events[j].ev = "verify"

PackageAfterDispatch ==
    (op.name \in PackagingCalls /\ Started) =>
        /\ ~Returned => Packs = <<>>
        /\ (Returned /\ IsErr(result)) => Packs = <<>>
        /\ (Returned /\ IsOk(result)) =>
               /\ result.val.prepay_id = resp.prepay_id
               /\ (result.val.sign_data.tag = "Some") <=> (resp.prepay_id.tag = "Some")
               /\ resp.prepay_id.tag = "None" => Packs = <<>>
               /\ resp.prepay_id.tag = "Some" =>
                      /\ Len(Packs) = 1
                      /\ events[Len(events)] = Packs[1]
                      /\ events[Len(events) - 1].ev = "response"
                      /\ Packs[1].prepay_id = resp.prepay_id.val
                      /\ result.val.sign_data.val =
                             mut_sign_data("", resp.prepay_id.val, Packs[1].n)
                      /\ Packs[1].n # Sends[1].headers.nonce_str

PackageAfterDispatchWitness ==
    /\ op.name \in PackagingCalls
    /\ Returned
    /\ IsOk(result)
    /\ result.val.sign_data.tag = "Some"

\* C8: get_weixin returns, for a fetched body in which "weixin://" occurs,
\* the first '"'-delimited segment holding it on the first line holding it,
\* and the not-found error for a body in which it does not occur.
ScrapeFindsFirstDeepLink ==
    (op.via = "get_weixin" /\ Returned /\ cause \in {"none", "not_found"}) =>
        IF Occurs(resp.text)
        THEN result = Ok(Some(StretchAround(resp.text, FirstOcc(resp.text))))
        ELSE result = Err("WeixinNotFound", "")

ScrapeFindsFirstDeepLinkWitness ==
    /\ op.via = "get_weixin"
    /\ Returned
    /\ IsOk(result)
    /\ \E i, j \in 1..Len(resp.text) :
           /\ i < j /\ j < FirstOcc(resp.text)
           /\ resp.text[i] = "\n" /\ resp.text[j] = "\""
    /\ Len(result.val.val) > Len(Needle)

\* C9: for every file name that passes the allow-list the part "file" is
\* tagged with the MIME type of its extension: image/jpeg for jpg and jpeg,
\* image/png for png, image/bmp for bmp.
UploadMimeFromExtension ==
    (op.via = "upload_image" /\ Len(Sends) = 1 /\ AllowListed(op.filename)) =>
        Sends[1].request.multipart.val.file.mime =
            MimeOf(to_lowercase(ExtOf(op.filename)))

\* C10: in pay the body signed is the body sent; in it appid, mchid and
\* notify_url hold the configured values whatever the caller supplied and
\* every other caller member is unchanged; a caller JSON that is not an
\* object fails before signing and sending.
PayBodySignedSentOverridden ==
    (op.via = "pay" /\ Started) =>
        IF op.json.kind # "object"
        THEN Returned /\ IsErr(result) /\ events = <<>>
        ELSE /\ Len(Signs) = 1
             /\ Len(Sends) = 1 => Sends[1].request.body = Signs[1].body
             /\ LET body == Signs[1].body
                    caller == op.json.members
                IN /\ MemberNames(body) =
                          MemberNames(caller) \cup {"appid", "mchid", "notify_url"}
                   /\ Len(body) = Cardinality(MemberNames(body))
                   /\ MemberOf(body, "appid") = appid
                   /\ MemberOf(body, "mchid") = mch_id
                   /\ MemberOf(body, "notify_url") = notify_url
                   /\ \A k \in MemberNames(caller) \ {"appid", "mchid", "notify_url"} :
                          MemberOf(body, k) = MemberOf(caller, k)

PayBodySignedSentOverriddenWitness ==
    /\ op.via = "pay"
    /\ Len(Sends) = 1
    /\ HasMember(op.json.members, "appid")
    /\ HasMember(op.json.members, "description")

====
